---- MODULE Spec2Model ----
(***************************************************************************)
(* Model of markdown_quote.py: the quote-block grammar, the line-range     *)
(* extractor, the dependency-graph builder, the topological scheduler and  *)
(* the document rewriter, with main's two passes as a state machine.       *)
(*                                                                         *)
(* Text is a sequence of tokens.  A token is a text atom, a line           *)
(* terminator, a quote_begin marker (kept whole, with its attributes) or a *)
(* quote_end marker.  String concatenation is \o, so every f-string of the *)
(* source is a concatenation of token sequences.                           *)
(***************************************************************************)
EXTENDS Integers, Sequences, FiniteSets, TLC

VARIABLES
    fs,            \* the file system: resolved path -> [mode, text]
    pc,            \* position of the program
    run,           \* which invocation of main is executing (1 or 2)
    idx,           \* loop index of main's current for loop
    dep_map,       \* main's dep_map / topological_sort's dependencies
    in_degree,     \* topological_sort: in_degree
    queue,         \* topological_sort: queue
    result,        \* topological_sort: result
    sorted_files,  \* main: sorted_files
    fs0,           \* history: the file system when the current run started
    processed,     \* history: paths passed to process_md_file in this run
    written,       \* history: resolved paths written in this run, in order
    args,          \* arguments of the function under test (function specs)
    ret            \* its locals and return value (function specs)

vars == <<fs, pc, run, idx, dep_map, in_degree, queue, result, sorted_files,
          fs0, processed, written, args, ret>>

---------------------------------------------------------------------------
(* Bounds *)

\* Longest file, in lines, given to extract_line_range on its own.
MaxLen == 3

\* Largest line number requested from extract_line_range on its own.
MaxLine == 5

\* Most edges of a dependency map given to topological_sort on its own.
MaxEdges == 4

\* Most quote blocks over all documents of one pipeline run.
MaxBlocks == 3

---------------------------------------------------------------------------
(* Values *)

\* Python's None, and a value that is not None.
None == [some |-> FALSE, v |-> <<>>]

Some(x) == [some |-> TRUE, v |-> x]

\* Tokens.  Every token has the same fields so that any two compare.
T(s) == [k |-> "txt", v |-> s, hc |-> FALSE, content |-> <<>>,
         hl |-> FALSE, lang |-> ""]

NL == [k |-> "nl", v |-> "", hc |-> FALSE, content |-> <<>>,
       hl |-> FALSE, lang |-> ""]

QEnd == [k |-> "end", v |-> "", hc |-> FALSE, content |-> <<>>,
         hl |-> FALSE, lang |-> ""]

\* <!-- quote_begin content="[x](c)" lang="l" -->, either attribute optional.
QBegin(hc, c, hl, l) == [k |-> "begin", v |-> "", hc |-> hc, content |-> c,
                         hl |-> hl, lang |-> l]

\* Sequence helpers -------------------------------------------------------

\* Python's seq[lo:hi] for 0 <= lo: indices clamp to the length.
Slice(seq, lo, hi) ==
    LET h == IF hi > Len(seq) THEN Len(seq) ELSE hi
    IN  IF lo >= h THEN <<>> ELSE SubSeq(seq, lo + 1, h)

Min(a, b) == IF a < b THEN a ELSE b

Max(a, b) == IF a > b THEN a ELSE b

RECURSIVE Flatten(_)
Flatten(seqs) ==
    IF seqs = <<>> THEN <<>> ELSE Head(seqs) \o Flatten(Tail(seqs))

\* All orderings of a finite set, as sequences.
RECURSIVE Perms(_)
Perms(S) ==
    IF S = {} THEN {<<>>}
    ELSE UNION {{<<x>> \o p : p \in Perms(S \ {x})} : x \in S}

Range(seq) == {seq[i] : i \in 1..Len(seq)}

\* sub occurs in text as a contiguous run of tokens.
Contains(text, sub) ==
    \E i \in 0..(Len(text) - Len(sub)) :
        SubSeq(text, i + 1, i + Len(sub)) = sub

---------------------------------------------------------------------------
(* extract_line_range *)

\* f.readlines(): the lines of a text, each with its terminator.
RECURSIVE ReadLinesFrom(_, _, _)
ReadLinesFrom(text, i, cur) ==
    IF i > Len(text) THEN (IF cur = <<>> THEN <<>> ELSE <<cur>>)
    ELSE IF text[i].k = "nl"
         THEN <<Append(cur, text[i])>> \o ReadLinesFrom(text, i + 1, <<>>)
         ELSE ReadLinesFrom(text, i + 1, Append(cur, text[i]))

ReadLines(text) == ReadLinesFrom(text, 1, <<>>)

\* start_line = max(1, min(start_line, len(lines)))
ClampStartMutant(start_line, n) == Max(1, start_line)

ClampStart(start_line, n) == Max(1, Min(start_line, n))

\* end_line = max(start_line, min(end_line, len(lines)))
ClampEndMutant(start_line, end_line, n) == Min(end_line, n)

ClampEnd(start_line, end_line, n) == Max(start_line, Min(end_line, n))

\* The locals and the return value of extract_line_range on file f of the
\* file system: None when open() or the decoding raised.
ExtractLocals(f, start_line, end_line) ==
    IF f.mode = "none"
    THEN [raised |-> TRUE, total |-> 0, start_line |-> start_line,
          end_line |-> end_line, out |-> None]
    ELSE LET lines == ReadLines(f.text)
             s     == ClampStart(start_line, Len(lines))
             e     == ClampEnd(s, end_line, Len(lines))
         IN  [raised |-> FALSE, total |-> Len(lines), start_line |-> s,
              end_line |-> e, out |-> Some(Flatten(Slice(lines, s - 1, e)))]

---------------------------------------------------------------------------
(* Paths.  A path is the sequence of its components; "/" first makes it    *)
(* absolute.                                                               *)

\* The working directory of the process.
Cwd == <<"/", "w">>

\* os.path.isabs
isabs(p) == Len(p) > 0 /\ p[1] = "/"

\* os.path.dirname
dirname(p) == IF Len(p) = 0 THEN <<>> ELSE SubSeq(p, 1, Len(p) - 1)

\* os.path.normpath: "." components go, ".." takes the component before it.
RECURSIVE NormFrom(_, _, _)
NormFrom(p, i, acc) ==
    IF i > Len(p) THEN acc
    ELSE IF p[i] = "." THEN NormFrom(p, i + 1, acc)
    ELSE IF p[i] = ".."
         THEN IF Len(acc) > 0 /\ acc[Len(acc)] = "/"
              THEN NormFrom(p, i + 1, acc)
              ELSE IF Len(acc) > 0 /\ acc[Len(acc)] # ".."
                   THEN NormFrom(p, i + 1, SubSeq(acc, 1, Len(acc) - 1))
                   ELSE NormFrom(p, i + 1, Append(acc, p[i]))
    ELSE NormFrom(p, i + 1, Append(acc, p[i]))

normpath(p) == NormFrom(p, 1, <<>>)

\* os.path.abspath
abspath(p) == normpath(IF isabs(p) THEN p ELSE Cwd \o p)

\* normalized_path
normalized_pathMutant(file_path) == file_path

normalized_path(file_path) == normpath(abspath(file_path))

\* to_full_path; os.path.isabs(None) raises TypeError.
to_full_path(file_path, md_file_dir) ==
    IF ~file_path.some THEN [raised |-> TRUE, path |-> <<>>]
    ELSE IF isabs(file_path.v) THEN [raised |-> FALSE, path |-> file_path.v]
    ELSE [raised |-> FALSE, path |-> md_file_dir \o file_path.v]

\* is_md_file: the extension of the last component is .md
MdNames == {"b.md", "c.md", "d.md", "e.md"}

is_md_file(filename) == Len(filename) > 0 /\ filename[Len(filename)] \in MdNames

\* What open() finds at a path: the operating system resolves it against
\* the working directory.
NoFile == [mode |-> "none", text |-> <<>>]

Resolved(p) == normpath(IF isabs(p) THEN p ELSE Cwd \o p)

Lookup(files, p) ==
    IF Resolved(p) \in DOMAIN files THEN files[Resolved(p)] ELSE NoFile

---------------------------------------------------------------------------
(* parse_path_spec, process_parameters *)

\* int() of a run of digits.
DigitVal == [d \in {"0", "1", "2", "3", "9"} |->
                CASE d = "0" -> 0 [] d = "1" -> 1 [] d = "2" -> 2
                  [] d = "3" -> 3 [] d = "9" -> 9]

IsDigits(s) == s \in DOMAIN DigitVal

\* Where (.+)#L(\d+)-L(\d+) can match in a content value: the places of
\* "#L" with a non-empty path before it and "<digits>-L<digits>" after it.
SpecPlaces(c) ==
    {i \in 2..(Len(c) - 3) :
        /\ c[i] = "#L" /\ IsDigits(c[i + 1])
        /\ c[i + 2] = "-L" /\ IsDigits(c[i + 3])}

\* parse_path_spec; re.match(pattern, None) raises TypeError.  The greedy
\* (.+) takes the last place.
parse_path_spec(path_spec) ==
    IF ~path_spec.some
    THEN [raised |-> TRUE, file_path |-> None, start_line |-> 0, end_line |-> 0]
    ELSE LET c == path_spec.v
             P == SpecPlaces(c)
         IN  IF P = {}
             THEN [raised |-> FALSE, file_path |-> None,
                   start_line |-> 0, end_line |-> 0]
             ELSE LET i == CHOOSE x \in P : \A y \in P : y <= x
                  IN  [raised |-> FALSE,
                       file_path |-> Some(SubSeq(c, 1, i - 1)),
                       start_line |-> DigitVal[c[i + 1]],
                       end_line |-> DigitVal[c[i + 3]]]

\* lang = lang if lang else "text"
LangOfMutant(lang) == IF lang.some THEN lang.v ELSE "text"

LangOf(lang) == IF lang.some /\ lang.v # "" THEN lang.v ELSE "text"

\* process_parameters
process_parameters(match) ==
    LET p == parse_path_spec(match.content)
    IN  [raised |-> p.raised, file_path |-> p.file_path,
         start_line |-> p.start_line, end_line |-> p.end_line,
         lang |-> LangOf(match.lang)]

---------------------------------------------------------------------------
(* QUOTE_PATTERN *)

\* The leftmost match of QUOTE_PATTERN at or after pos: a begin marker,
\* then the greedy any-character group, up to the last end marker of the
\* text.
FindMatch(text, pos) ==
    LET B == {i \in pos..Len(text) :
                 /\ text[i].k = "begin"
                 /\ \E j \in (i + 1)..Len(text) : text[j].k = "end"}
    IN  IF B = {} THEN [found |-> FALSE, i |-> 0, j |-> 0]
        ELSE LET i == CHOOSE x \in B : \A y \in B : x <= y
                 E == {j \in (i + 1)..Len(text) : text[j].k = "end"}
             IN  [found |-> TRUE, i |-> i,
                  j |-> CHOOSE x \in E : \A y \in E : y <= x]

\* The groups of a match.
MatchAt(text, m) ==
    [begin_block |-> text[m.i], end_block |-> text[m.j],
     content |-> IF text[m.i].hc THEN Some(text[m.i].content) ELSE None,
     lang |-> IF text[m.i].hl THEN Some(text[m.i].lang) ELSE None]

---------------------------------------------------------------------------
(* process_quote_block *)

\* The three backquotes that open and close a fenced code block.
Fence == T("fence")

\* new_code_block
FormatBodyMutant(lang, text_content) == <<NL>> \o text_content

FormatBody(lang, text_content) ==
    IF lang # "text"
    THEN <<Fence, T(lang), NL>> \o text_content \o <<Fence>>
    ELSE <<NL>> \o text_content

\* new_block
NewBlock(quote_begin_block, new_code_block, quote_end_block) ==
    <<quote_begin_block, NL>> \o new_code_block \o <<NL, quote_end_block>>

\* process_quote_block: out is the new block, or None; raised when
\* process_parameters raised.
process_quote_block(files, match, md_file_dir) ==
    LET p == process_parameters(match)
    IN  IF p.raised THEN [raised |-> TRUE, out |-> None]
        ELSE IF ~p.file_path.some THEN [raised |-> FALSE, out |-> None]
        ELSE LET full == to_full_path(p.file_path, md_file_dir).path
                 x    == ExtractLocals(Lookup(files, full),
                                       p.start_line, p.end_line)
             IN  IF ~x.out.some THEN [raised |-> FALSE, out |-> None]
                 ELSE [raised |-> FALSE,
                       out |-> Some(NewBlock(match.begin_block,
                                             FormatBody(p.lang, x.out.v),
                                             match.end_block))]

---------------------------------------------------------------------------
(* process_md_file *)

\* re.sub(QUOTE_PATTERN, lambda match: process_quote_block(...), content)
\* from position pos on.  A callback that returns None contributes the
\* empty string; an exception of the callback leaves re.sub.
RECURSIVE ReSub(_, _, _, _)
ReSub(files, text, pos, md_file_dir) ==
    LET m == FindMatch(text, pos)
    IN  IF ~m.found
        THEN [raised |-> FALSE, out |-> SubSeq(text, pos, Len(text))]
        ELSE LET r == process_quote_block(files, MatchAt(text, m), md_file_dir)
             IN  IF r.raised THEN [raised |-> TRUE, out |-> <<>>]
                 ELSE LET rest == ReSub(files, text, m.j + 1, md_file_dir)
                      IN  IF rest.raised THEN rest
                          ELSE [raised |-> FALSE,
                                out |-> SubSeq(text, pos, m.i - 1)
                                        \o (IF r.out.some THEN r.out.v ELSE <<>>)
                                        \o rest.out]

\* process_md_file: the file system it leaves, and whether it wrote.  Every
\* exception (the read, the substitution, the write) is caught inside.
process_md_fileMutant(files, md_file_path) ==
    LET f == Lookup(files, md_file_path)
    IN  IF f.mode = "none" THEN [files |-> files, wrote |-> FALSE, error |-> TRUE]
        ELSE LET new == ReSub(files, f.text, 1, dirname(md_file_path))
             IN  IF new.raised
                 THEN [files |-> files, wrote |-> FALSE, error |-> TRUE]
                 ELSE IF f.mode = "ro"
                 THEN [files |-> files, wrote |-> FALSE, error |-> TRUE]
                 ELSE [files |-> [files EXCEPT ![Resolved(md_file_path)].text = new.out],
                       wrote |-> TRUE, error |-> FALSE]

process_md_file(files, md_file_path) ==
    LET f == Lookup(files, md_file_path)
    IN  IF f.mode = "none" THEN [files |-> files, wrote |-> FALSE, error |-> TRUE]
        ELSE LET new == ReSub(files, f.text, 1, dirname(md_file_path))
             IN  IF new.raised
                 THEN [files |-> files, wrote |-> FALSE, error |-> TRUE]
                 ELSE IF new.out = f.text
                 THEN [files |-> files, wrote |-> FALSE, error |-> FALSE]
                 ELSE IF f.mode = "ro"
                 THEN [files |-> files, wrote |-> FALSE, error |-> TRUE]
                 ELSE [files |-> [files EXCEPT ![Resolved(md_file_path)].text = new.out],
                       wrote |-> TRUE, error |-> FALSE]

---------------------------------------------------------------------------
(* pre_process_md_file *)

\* The empty dict.
EmptyMap == [k \in {} |-> {}]

\* dependency_map[key] = {value}, or dependency_map[key].add(value)
AddEdge(dm, key, value) ==
    IF key \in DOMAIN dm THEN [dm EXCEPT ![key] = @ \cup {value}]
    ELSE dm @@ (key :> {value})

\* The loop over re.finditer(QUOTE_PATTERN, content) from position pos on:
\* the map when the loop ends or an exception leaves it (the edges added
\* before the exception stay in the map).
RECURSIVE ScanFrom(_, _, _, _)
ScanFrom(text, pos, md_file_path, dm) ==
    LET m == FindMatch(text, pos)
    IN  IF ~m.found THEN dm
        ELSE LET p == process_parameters(MatchAt(text, m))
             IN  IF p.raised THEN dm
                 ELSE LET full == to_full_path(p.file_path, dirname(md_file_path))
                      IN  IF full.raised THEN dm
                          ELSE ScanFrom(text, m.j + 1, md_file_path,
                                        AddEdge(dm, normalized_path(full.path),
                                                normalized_path(md_file_path)))

\* pre_process_md_file: the dependency map it leaves.
pre_process_md_file(files, md_file_path, dependency_map) ==
    LET f == Lookup(files, md_file_path)
    IN  IF f.mode = "none" THEN dependency_map
        ELSE ScanFrom(f.text, 1, md_file_path, dependency_map)

---------------------------------------------------------------------------
(* topological_sort *)

\* all_nodes
AllNodes(dependencies) ==
    DOMAIN dependencies \cup UNION {dependencies[k] : k \in DOMAIN dependencies}

\* in_degree if no edge were counted.
InDegreeMutant(dependencies) ==
    [n \in AllNodes(dependencies) |-> 0]

\* in_degree after the graph is built: one per (key, dependent) pair.
InDegree(dependencies) ==
    [n \in AllNodes(dependencies) |->
        Cardinality({k \in DOMAIN dependencies : n \in dependencies[k]})]

\* graph if no dependent were appended to it.
NeighborsMutant(dependencies, node) == {}

\* graph.get(current_node, [])
Neighbors(dependencies, node) ==
    IF node \in DOMAIN dependencies THEN dependencies[node] ELSE {}

\* in_degree[neighbor] -= 1 for every neighbor of current_node
DecrementMutant(dependencies, deg, current_node) ==
    [n \in DOMAIN deg |->
        IF n \in Neighbors(dependencies, current_node) THEN 0 ELSE deg[n]]

DecrementTwiceMutant(dependencies, deg, current_node) ==
    [n \in DOMAIN deg |->
        IF n \in Neighbors(dependencies, current_node) THEN deg[n] - 2 ELSE deg[n]]

Decrement(dependencies, deg, current_node) ==
    [n \in DOMAIN deg |->
        IF n \in Neighbors(dependencies, current_node) THEN deg[n] - 1 ELSE deg[n]]

\* The value returned once the queue is empty.
SortResultMutant(dependencies, res) == res

SortResult(dependencies, res) ==
    IF Len(res) # Cardinality(AllNodes(dependencies)) THEN <<>> ELSE res

---------------------------------------------------------------------------
(* The files of a run *)

PathA == <<"/", "w", "a.txt">>
PathB == <<"/", "w", "b.md">>
PathC == <<"/", "w", "c.md">>
\* A markdown file outside the scanned folder.
PathD == <<"/", "d.md">>

\* A third document, present in the scanned folder in some runs only.
PathE == <<"/", "w", "e.md">>

\* glob.glob(os.path.join(".", "**/*.md"), recursive=True): the documents
\* that are in the scanned folder /w.
md_files ==
    IF PathE \in DOMAIN fs
    THEN << <<".", "b.md">>, <<".", "c.md">>, <<".", "e.md">> >>
    ELSE << <<".", "b.md">>, <<".", "c.md">> >>

\* a.txt: three lines, the last one without a terminator.
TextA == <<T("a1"), NL, T("a2"), NL, T("a3")>>

\* The begin markers a document's author may have written.
BlockChoices ==
    { QBegin(TRUE, <<"a.txt", "#L", "1", "-L", "2">>, TRUE, "rust"),
      QBegin(TRUE, <<".", "a.txt", "#L", "2", "-L", "9">>, FALSE, ""),
      QBegin(TRUE, <<"b.md", "#L", "1", "-L", "3">>, FALSE, ""),
      QBegin(TRUE, <<"/", "w", "c.md", "#L", "1", "-L", "9">>, TRUE, "text"),
      QBegin(TRUE, <<"..", "d.md", "#L", "2", "-L", "9">>, FALSE, ""),
      QBegin(TRUE, <<"m.txt", "#L", "1", "-L", "1">>, TRUE, "rust"),
      QBegin(TRUE, <<"not-a-valid-spec">>, FALSE, ""),
      QBegin(FALSE, <<>>, TRUE, "rust") }

\* A quote block as written by hand: the marker pair around a stale body.
StaleBlock(begin) == <<begin, NL, T("old"), NL, QEnd, NL>>

\* A document: a heading line, then its blocks, each followed by a line of
\* text.
RECURSIVE DocBlocks(_, _)
DocBlocks(begins, i) ==
    IF i > Len(begins) THEN <<>>
    ELSE StaleBlock(begins[i]) \o <<T("t"), NL>> \o DocBlocks(begins, i + 1)

DocText(begins) == <<T("h"), NL>> \o DocBlocks(begins, 1)

File(text) == [mode |-> "rw", text |-> text]

InitFs(bb, cc, dd) ==
    (PathA :> File(TextA)) @@ (PathB :> File(DocText(bb)))
    @@ (PathC :> File(DocText(cc))) @@ (PathD :> File(DocText(dd)))

\* What may be wrong with the files of a run: nothing, b.md is read-only,
\* or d.md cannot be read.
Faults == {"none", "b_ro", "d_unreadable"}

WithFault(files, fault) ==
    CASE fault = "none" -> files
      [] fault = "b_ro" -> [files EXCEPT ![PathB].mode = "ro"]
      [] fault = "d_unreadable" -> [files EXCEPT ![PathD] = NoFile]

\* Values of the variables a specification does not use.
NoArgs == [none |-> TRUE]

---------------------------------------------------------------------------
(* main *)

Init ==
    /\ \E nb \in 0..MaxBlocks :
       \E nc \in 0..(MaxBlocks - nb) :
       \E bb \in [1..nb -> BlockChoices] :
       \E cc \in [1..nc -> BlockChoices] :
       \E dd \in {<<>>} \cup (IF nb + nc < MaxBlocks
                              THEN {<<x>> : x \in BlockChoices} ELSE {}) :
       \E fault \in Faults :
           fs = WithFault(InitFs(bb, cc, dd), fault)
    /\ fs0 = fs
    /\ pc = "pass1"
    /\ run = 1
    /\ idx = 1
    /\ dep_map = EmptyMap
    /\ in_degree = EmptyMap
    /\ queue = <<>>
    /\ result = <<>>
    /\ sorted_files = <<>>
    /\ processed = <<>>
    /\ written = <<>>
    /\ args = NoArgs
    /\ ret = NoArgs

\* The first loop if it ended after its first document.
PreProcessMutant ==
    /\ pc = "pass1"
    /\ idx <= Len(md_files)
    /\ dep_map' = pre_process_md_file(fs, md_files[idx], dep_map)
    /\ idx' = idx + 1
    /\ pc' = "sort"
    /\ UNCHANGED <<fs, run, in_degree, queue, result, sorted_files, fs0,
                   processed, written, args, ret>>

\* for md_file in md_files: pre_process_md_file(md_file, dep_map)
PreProcess ==
    /\ pc = "pass1"
    /\ idx <= Len(md_files)
    /\ dep_map' = pre_process_md_file(fs, md_files[idx], dep_map)
    /\ idx' = idx + 1
    /\ pc' = IF idx = Len(md_files) THEN "sort" ELSE "pass1"
    /\ UNCHANGED <<fs, run, in_degree, queue, result, sorted_files, fs0,
                   processed, written, args, ret>>

\* topological_sort up to its while loop: the in-degrees, and the queue
\* seeded with the zero in-degree nodes in the iteration order of the set
\* all_nodes, which is any order.
TopoInit ==
    /\ pc = "sort"
    /\ in_degree' = InDegree(dep_map)
    /\ \E q \in Perms({n \in AllNodes(dep_map) : InDegree(dep_map)[n] = 0}) :
           queue' = q
    /\ result' = <<>>
    /\ pc' = "kahn"
    /\ UNCHANGED <<fs, run, idx, dep_map, sorted_files, fs0, processed,
                   written, args, ret>>

\* One iteration of the while loop.  graph[current_node] lists the
\* dependents in the iteration order of a set, which is any order.
TopoStep ==
    /\ pc = "kahn"
    /\ queue # <<>>
    /\ LET current_node == Head(queue)
           deg == Decrement(dep_map, in_degree, current_node)
           ready == {n \in Neighbors(dep_map, current_node) : deg[n] = 0}
       IN  /\ result' = Append(result, current_node)
           /\ in_degree' = deg
           /\ \E q \in Perms(ready) : queue' = Tail(queue) \o q
    /\ UNCHANGED <<fs, pc, run, idx, dep_map, sorted_files, fs0, processed,
                   written, args, ret>>

\* The loop has ended: the cycle check and the return to main.
TopoReturn ==
    /\ pc = "kahn"
    /\ queue = <<>>
    /\ sorted_files' = SortResult(dep_map, result)
    /\ idx' = 1
    /\ pc' = "pass2"
    /\ UNCHANGED <<fs, run, dep_map, in_degree, queue, result, fs0,
                   processed, written, args, ret>>

\* The second loop if an error of one document ended it.
ProcessMutant ==
    /\ pc = "pass2"
    /\ idx <= Len(sorted_files)
    /\ LET file_path == sorted_files[idx]
           r == process_md_file(fs, file_path)
       IN  /\ IF is_md_file(file_path)
              THEN /\ fs' = r.files
                   /\ processed' = Append(processed, file_path)
                   /\ written' = IF r.wrote THEN Append(written, Resolved(file_path))
                                 ELSE written
              ELSE UNCHANGED <<fs, processed, written>>
           /\ idx' = IF is_md_file(file_path) /\ r.error
                     THEN Len(sorted_files) + 1 ELSE idx + 1
    /\ UNCHANGED <<pc, run, dep_map, in_degree, queue, result, sorted_files,
                   fs0, args, ret>>

\* for file_path in sorted_files: if is_md_file(file_path): process_md_file
Process ==
    /\ pc = "pass2"
    /\ idx <= Len(sorted_files)
    /\ LET file_path == sorted_files[idx]
           r == process_md_file(fs, file_path)
       IN  IF is_md_file(file_path)
           THEN /\ fs' = r.files
                /\ processed' = Append(processed, file_path)
                /\ written' = IF r.wrote THEN Append(written, Resolved(file_path))
                              ELSE written
           ELSE UNCHANGED <<fs, processed, written>>
    /\ idx' = idx + 1
    /\ UNCHANGED <<pc, run, dep_map, in_degree, queue, result, sorted_files,
                   fs0, args, ret>>

\* print("Quote processing completed")
Finish ==
    /\ pc = "pass2"
    /\ idx > Len(sorted_files)
    /\ pc' = "done"
    /\ UNCHANGED <<fs, run, idx, dep_map, in_degree, queue, result,
                   sorted_files, fs0, processed, written, args, ret>>

\* The tool is invoked again on the files the first run left.
Rerun ==
    /\ pc = "done"
    /\ run = 1
    /\ run' = 2
    /\ fs0' = fs
    /\ pc' = "pass1"
    /\ idx' = 1
    /\ dep_map' = EmptyMap
    /\ in_degree' = EmptyMap
    /\ queue' = <<>>
    /\ result' = <<>>
    /\ sorted_files' = <<>>
    /\ processed' = <<>>
    /\ written' = <<>>
    /\ UNCHANGED <<fs, args, ret>>

Next ==
    \/ PreProcess
    \/ TopoInit
    \/ TopoStep
    \/ TopoReturn
    \/ Process
    \/ Finish
    \/ Rerun

Spec == Init /\ [][Next]_vars

---------------------------------------------------------------------------
(* topological_sort on its own: every dependency map of at most MaxEdges   *)
(* entries over four nodes.                                                *)

Nodes == {"n1", "n2", "n3", "n4"}

\* The dict with the edges E (key -> dependent) and the keys K.
MapOf(E, K) ==
    [k \in K \cup {e[1] : e \in E} |-> {e[2] : e \in {x \in E : x[1] = k}}]

InitSort ==
    /\ \E E \in SUBSET (Nodes \X Nodes) :
       \E K \in SUBSET Nodes :
           /\ Cardinality(E) + Cardinality(K \ {e[1] : e \in E}) <= MaxEdges
           /\ K \cap {e[1] : e \in E} = {}
           /\ dep_map = MapOf(E, K)
    /\ pc = "sort"
    /\ fs = EmptyMap
    /\ fs0 = EmptyMap
    /\ run = 1
    /\ idx = 1
    /\ in_degree = EmptyMap
    /\ queue = <<>>
    /\ result = <<>>
    /\ sorted_files = <<>>
    /\ processed = <<>>
    /\ written = <<>>
    /\ args = NoArgs
    /\ ret = NoArgs

NextSort ==
    \/ TopoInit
    \/ TopoStep
    \/ TopoReturn

SpecSort == InitSort /\ [][NextSort]_vars

\* The interpreter runs a started call on, statement after statement.
SpecSortLive == InitSort /\ [][NextSort]_vars /\ WF_vars(NextSort)

---------------------------------------------------------------------------
(* One run on a folder of three documents, b.md, c.md and e.md, each with   *)
(* at most one block, and the markdown file d.md outside the folder.        *)

NoBlockOrOne == {<<>>} \cup {<<x>> : x \in BlockChoices}

InitOrder ==
    /\ \E bb \in NoBlockOrOne :
       \E cc \in NoBlockOrOne :
       \E dd \in NoBlockOrOne :
       \E ee \in NoBlockOrOne :
           fs = InitFs(bb, cc, dd) @@ (PathE :> File(DocText(ee)))
    /\ fs0 = fs
    /\ pc = "pass1"
    /\ run = 1
    /\ idx = 1
    /\ dep_map = EmptyMap
    /\ in_degree = EmptyMap
    /\ queue = <<>>
    /\ result = <<>>
    /\ sorted_files = <<>>
    /\ processed = <<>>
    /\ written = <<>>
    /\ args = NoArgs
    /\ ret = NoArgs

NextOrder ==
    \/ PreProcess
    \/ TopoInit
    \/ TopoStep
    \/ TopoReturn
    \/ Process
    \/ Finish

SpecOrder == InitOrder /\ [][NextOrder]_vars

---------------------------------------------------------------------------
(* extract_line_range on its own: every file of at most MaxLen lines, with *)
(* and without a terminator on its last line, or unreadable, and every     *)
(* requested range up to MaxLine.                                          *)

\* Line i of a file of n lines.
LineOf(i, n, final_nl) ==
    IF i < n \/ final_nl THEN <<T(ToString(i)), NL>> ELSE <<T(ToString(i))>>

RECURSIVE LinesText(_, _, _)
LinesText(i, n, final_nl) ==
    IF i > n THEN <<>> ELSE LineOf(i, n, final_nl) \o LinesText(i + 1, n, final_nl)

InitExtract ==
    /\ \E n \in 0..MaxLen :
       \E final_nl \in BOOLEAN :
       \E readable \in BOOLEAN :
       \E s \in 0..MaxLine :
       \E e \in 0..MaxLine :
           /\ (n = 0 => final_nl)
           /\ (~readable => (n = 0))
           /\ args = [n |-> n, final_nl |-> final_nl,
                      file |-> IF readable THEN File(LinesText(1, n, final_nl))
                               ELSE NoFile,
                      start_line |-> s, end_line |-> e]
    /\ ret = NoArgs
    /\ pc = "call"
    /\ fs = EmptyMap
    /\ fs0 = EmptyMap
    /\ run = 1
    /\ idx = 1
    /\ dep_map = EmptyMap
    /\ in_degree = EmptyMap
    /\ queue = <<>>
    /\ result = <<>>
    /\ sorted_files = <<>>
    /\ processed = <<>>
    /\ written = <<>>

\* extract_line_range(file_path, start_line, end_line)
ExtractCall ==
    /\ pc = "call"
    /\ ret' = ExtractLocals(args.file, args.start_line, args.end_line)
    /\ pc' = "returned"
    /\ UNCHANGED <<fs, run, idx, dep_map, in_degree, queue, result,
                   sorted_files, fs0, processed, written, args>>

NextExtract == ExtractCall

SpecExtract == InitExtract /\ [][NextExtract]_vars

---------------------------------------------------------------------------
(* process_quote_block on its own: one match of a document of /w, with     *)
(* every lang attribute and every content value below.                     *)

Langs == {"", "text", "rust", "py"}

Digits == {"0", "1", "2", "3", "9"}

Contents ==
    {p \o <<"#L", s, "-L", e>> :
        p \in {<<"a.txt">>, <<".", "a.txt">>, <<"m.txt">>},
        s \in Digits, e \in Digits}
    \cup {<<"not-a-valid-spec">>}

BlockFs == (PathA :> File(TextA))

InitBlock ==
    /\ \E hc \in BOOLEAN :
       \E c \in Contents :
       \E hl \in BOOLEAN :
       \E l \in Langs :
           /\ (~hc => c = <<"not-a-valid-spec">>)
           /\ (~hl => l = "")
           /\ args = [begin_block |-> QBegin(hc, IF hc THEN c ELSE <<>>, hl, l),
                      end_block |-> QEnd,
                      content |-> IF hc THEN Some(c) ELSE None,
                      lang |-> IF hl THEN Some(l) ELSE None]
    /\ ret = NoArgs
    /\ pc = "call"
    /\ fs = BlockFs
    /\ fs0 = BlockFs
    /\ run = 1
    /\ idx = 1
    /\ dep_map = EmptyMap
    /\ in_degree = EmptyMap
    /\ queue = <<>>
    /\ result = <<>>
    /\ sorted_files = <<>>
    /\ processed = <<>>
    /\ written = <<>>

\* process_quote_block(match, md_file_dir) for a document of the folder /w
BlockCall ==
    /\ pc = "call"
    /\ ret' = process_quote_block(fs, args, <<"/", "w">>)
    /\ pc' = "returned"
    /\ UNCHANGED <<fs, run, idx, dep_map, in_degree, queue, result,
                   sorted_files, fs0, processed, written, args>>

NextBlock == BlockCall

SpecBlock == InitBlock /\ [][NextBlock]_vars

---------------------------------------------------------------------------
(* Properties *)

\* The nodes reachable from the set S by one or more edges.
RECURSIVE ReachFrom(_, _, _)
ReachFrom(dm, S, seen) ==
    LET next == UNION {Neighbors(dm, n) : n \in S}
    IN  IF next \subseteq seen THEN seen
        ELSE ReachFrom(dm, next \ seen, seen \cup next)

OnCycle(dm, n) == n \in ReachFrom(dm, {n}, {})

HasCycle(dm) == \E n \in AllNodes(dm) : OnCycle(dm, n)

\* u occurs in seq, v occurs in seq, and every u is before every v.
Before(seq, u, v) ==
    /\ \E i \in 1..Len(seq) : seq[i] = u
    /\ \E j \in 1..Len(seq) : seq[j] = v
    /\ \A i, j \in 1..Len(seq) : (seq[i] = u /\ seq[j] = v) => i < j

\* C1: for every acyclic dependency map, the order topological_sort returns
\* has u strictly before v for every edge u -> v of the map.
OrderingCorrect ==
    (pc = "pass2" /\ ~HasCycle(dep_map)) =>
        \A u \in DOMAIN dep_map : \A v \in dep_map[u] :
            Before(sorted_files, u, v)

\* An acyclic map with a chain of three edges and a node with two
\* predecessors has been sorted.
OrderingWitness ==
    /\ pc = "pass2"
    /\ ~HasCycle(dep_map)
    /\ \E a, b, c, d \in AllNodes(dep_map) :
          /\ Cardinality({a, b, c, d}) = 4
          /\ b \in Neighbors(dep_map, a)
          /\ c \in Neighbors(dep_map, b)
          /\ d \in Neighbors(dep_map, c)
          /\ d \in Neighbors(dep_map, a)
    /\ Len(sorted_files) = 4

\* The documents of the input set, as the files they are.
InputDocs == {Resolved(md_files[i]) : i \in 1..Len(md_files)}

\* C2: when the dependency map built in pass 1 has a cycle, the run
\* processes and writes no file: every file is as it was when the run began.
CycleAbortsRun ==
    (pc \in {"pass2", "done"} /\ HasCycle(dep_map)) =>
        /\ sorted_files = <<>>
        /\ processed = <<>>
        /\ written = <<>>
        /\ fs = fs0

\* A run has ended whose map has a cycle and also an input document that
\* is not on any cycle and quotes a readable file.
CycleWitness ==
    /\ pc = "done"
    /\ HasCycle(dep_map)
    /\ \E f \in DOMAIN dep_map : \E d \in dep_map[f] :
          /\ d \in InputDocs
          /\ ~OnCycle(dep_map, d)
          /\ ~OnCycle(dep_map, f)
          /\ Lookup(fs, f).mode # "none"

\* C3: a second run on the files the first run left writes nothing, and
\* every input document is after the second run what it was after the first.
Idempotent ==
    (pc = "done" /\ run = 2) =>
        /\ written = <<>>
        /\ \A d \in InputDocs : fs[d] = fs0[d]

\* The begin markers of a text, and the file a begin marker refers to when
\* its document lies in the directory dir.
Begins(text) == {text[i] : i \in {j \in 1..Len(text) : text[j].k = "begin"}}

NumBegins(text) == Cardinality({j \in 1..Len(text) : text[j].k = "begin"})

SpecOf(begin) == parse_path_spec(IF begin.hc THEN Some(begin.content) ELSE None)

Resolvable(begin) == begin.hc /\ SpecOf(begin).file_path.some

TargetOf(begin, dir) ==
    normalized_path(to_full_path(SpecOf(begin).file_path, dir).path)

\* The directory of a document, from the path pass 2 is given.
DirOf(d) == dirname(d)

WasProcessed(d) == \E i \in 1..Len(processed) : Resolved(processed[i]) = d

NoFault(files) == \A p \in DOMAIN files : files[p].mode = "rw"

\* The block a successful rewrite leaves for a begin marker that quotes
\* lines of the text src.
RewrittenBlock(begin, src) ==
    NewBlock(begin,
             FormatBody(LangOf(IF begin.hl THEN Some(begin.lang) ELSE None),
                        ExtractLocals(File(src), SpecOf(begin).start_line,
                                      SpecOf(begin).end_line).out.v),
             QEnd)

\* C4: in a completed run over writable files, when B and C are input
\* documents, every block of B quotes the plain file a.txt, and every block
\* of C quotes a.txt or B, then each block of C that quotes B holds, after
\* the run, the requested lines of B as the run left B.
TransitiveQuoting ==
    (pc = "done" /\ run = 1 /\ NoFault(fs0) /\ sorted_files # <<>>) =>
        \A B \in InputDocs : \A C \in InputDocs \ {B} :
            ( /\ Begins(fs0[B].text) # {}
              /\ \A t \in Begins(fs0[B].text) :
                    Resolvable(t) /\ TargetOf(t, DirOf(B)) = PathA
              /\ \A t \in Begins(fs0[C].text) :
                    Resolvable(t) /\ TargetOf(t, DirOf(C)) \in {PathA, B} )
            => \A t \in Begins(fs0[C].text) :
                   TargetOf(t, DirOf(C)) = B =>
                       Contains(fs[C].text, RewrittenBlock(t, fs[B].text))

\* C5: a processed input document whose only block has a resolvable
\* path-spec and a file that cannot be read is, after the run, what it was
\* before: the block is left as it was.
FailedExtractionKeepsBlock ==
    (pc = "done" /\ run = 1) =>
        \A d \in InputDocs :
            ( /\ WasProcessed(d)
              /\ NumBegins(fs0[d].text) = 1
              /\ \A t \in Begins(fs0[d].text) :
                    /\ Resolvable(t)
                    /\ Lookup(fs0, TargetOf(t, DirOf(d))).mode = "none" )
            => fs[d].text = fs0[d].text

\* C6: an input document whose only block has a content value that does
\* not parse as a path-spec still holds that block, marker pair and stale
\* body, after the run.
UnresolvableBlockPreserved ==
    (pc = "done" /\ run = 1) =>
        \A d \in InputDocs :
            ( /\ NumBegins(fs0[d].text) = 1
              /\ \A t \in Begins(fs0[d].text) : t.hc /\ ~Resolvable(t) )
            => \A t \in Begins(fs0[d].text) :
                   Contains(fs[d].text, StaleBlock(t))

\* The text with each block (a begin marker up to the next end marker)
\* rewritten on its own from the readable file its marker names, and all
\* text outside the blocks kept.
RECURSIVE SeparateRewrite(_, _, _, _)
SeparateRewrite(files, text, pos, dir) ==
    LET B == {i \in pos..Len(text) :
                 /\ text[i].k = "begin"
                 /\ \E j \in (i + 1)..Len(text) : text[j].k = "end"}
    IN  IF B = {} THEN SubSeq(text, pos, Len(text))
        ELSE LET i == CHOOSE x \in B : \A y \in B : x <= y
                 E == {j \in (i + 1)..Len(text) : text[j].k = "end"}
                 j == CHOOSE x \in E : \A y \in E : x <= y
             IN  SubSeq(text, pos, i - 1)
                 \o RewrittenBlock(text[i],
                                   Lookup(files, TargetOf(text[i], dir)).text)
                 \o SeparateRewrite(files, text, j + 1, dir)

\* C7: a processed, writable input document with two or more blocks, all
\* quoting the plain file a.txt, is after the run the text with each block
\* rewritten between its own markers and everything outside the blocks
\* unchanged.
SeparateSubstitution ==
    (pc = "done" /\ run = 1) =>
        \A d \in InputDocs :
            ( /\ WasProcessed(d)
              /\ fs0[d].mode = "rw"
              /\ NumBegins(fs0[d].text) >= 2
              /\ \A t \in Begins(fs0[d].text) :
                    Resolvable(t) /\ TargetOf(t, DirOf(d)) = PathA )
            => fs[d].text = SeparateRewrite(fs0, fs0[d].text, 1, DirOf(d))

\* A value clamped into the interval lo..hi.
ClampInto(x, lo, hi) == IF x < lo THEN lo ELSE IF x > hi THEN hi ELSE x

\* C8 as stated: for every readable file, the empty one included, the
\* clamped range satisfies 1 <= start_line <= end_line <= total_lines.
ClampedRangeAnyFile ==
    (pc = "returned" /\ ~ret.raised) =>
        /\ 1 <= ret.start_line
        /\ ret.start_line <= ret.end_line
        /\ ret.end_line <= ret.total

\* C8, amended: for a readable file of at least one line, start_line is
\* clamped into 1..total_lines and end_line into start_line..total_lines,
\* so 1 <= start_line <= end_line <= total_lines; for an empty file both
\* become 1 and the result is the empty string.
ClampedRange ==
    (pc = "returned" /\ ~ret.raised) =>
        /\ ret.total >= 1 =>
              /\ ret.start_line = ClampInto(args.start_line, 1, ret.total)
              /\ ret.end_line = ClampInto(args.end_line, ret.start_line, ret.total)
              /\ 1 <= ret.start_line
              /\ ret.start_line <= ret.end_line
              /\ ret.end_line <= ret.total
        /\ ret.total = 0 =>
              /\ ret.start_line = 1
              /\ ret.end_line = 1
              /\ ret.out = Some(<<>>)

\* A range that starts past the end of a file of two or more lines and
\* ends before line 1 has been clamped.
ClampedRangeWitness ==
    /\ pc = "returned"
    /\ ~ret.raised
    /\ ret.total >= 2
    /\ args.start_line > ret.total
    /\ args.end_line = 0

\* Lines s..e of a file of n lines, each with its terminator.
RECURSIVE ExpectedLines(_, _, _, _)
ExpectedLines(s, e, n, final_nl) ==
    IF s > e THEN <<>>
    ELSE LineOf(s, n, final_nl) \o ExpectedLines(s + 1, e, n, final_nl)

\* C9: for a readable file of n >= 1 lines the result is exactly the lines
\* s'..e' with s' = max(1, min(start, n)) and e' = max(s', min(end, n)):
\* never empty; lines start..n when the range ends past the end of the
\* file; the last line alone when it starts past the end; the single line
\* s' when the end is before the start.
ExtractReturnsLines ==
    (pc = "returned" /\ ~ret.raised /\ args.n >= 1) =>
        LET n  == args.n
            nl == args.final_nl
            s  == args.start_line
            e  == args.end_line
            s1 == Max(1, Min(s, n))
            e1 == Max(s1, Min(e, n))
            out == ret.out.v
        IN  /\ ret.out.some
            /\ out = ExpectedLines(s1, e1, n, nl)
            /\ out # <<>>
            /\ (1 <= s /\ s <= n /\ e > n) => out = ExpectedLines(s, n, n, nl)
            /\ (s > n) => out = LineOf(n, n, nl)
            /\ (e < s) => out = LineOf(s1, n, nl)

\* A range whose start is past the end of a file of two or more lines, and
\* whose end is before its start, has been extracted.
ExtractWitness ==
    /\ pc = "returned"
    /\ ret.out.some
    /\ args.n >= 2
    /\ args.start_line > args.n
    /\ args.end_line < args.start_line
    /\ args.end_line >= 1

\* The text process_quote_block extracts for the match in args.
ExtractedText ==
    ExtractLocals(Lookup(fs, <<"/", "w">> \o parse_path_spec(args.content).file_path.v),
                  parse_path_spec(args.content).start_line,
                  parse_path_spec(args.content).end_line).out.v

FencedBlock ==
    <<args.begin_block, NL, Fence, T(args.lang.v), NL>> \o ExtractedText
    \o <<Fence, NL, args.end_block>>

PlainBlock ==
    <<args.begin_block, NL, NL>> \o ExtractedText \o <<NL, args.end_block>>

\* C10 as stated: after a successful extraction the new block is the begin
\* marker, a fence tagged with lang around the extracted text, and the end
\* marker when lang is present and is not "text"; it is the begin marker,
\* the extracted text after a newline, and the end marker when lang is
\* absent or is "text".
LangFormattingAnyLang ==
    (pc = "returned" /\ ret.out.some) =>
        IF args.lang.some /\ args.lang.v # "text"
        THEN ret.out.v = FencedBlock
        ELSE ret.out.v = PlainBlock

\* C10, amended: the fence is written when lang is present, not empty and
\* not "text"; the plain form when lang is absent, empty or "text".
LangFormatting ==
    (pc = "returned" /\ ret.out.some) =>
        IF args.lang.some /\ args.lang.v # "text" /\ args.lang.v # ""
        THEN ret.out.v = FencedBlock
        ELSE ret.out.v = PlainBlock

\* A block with lang="rust" has been rewritten from lines of a.txt that
\* end in the file's unterminated last line.
LangFormattingWitness ==
    /\ pc = "returned"
    /\ ret.out.some
    /\ args.lang = Some("rust")
    /\ Len(ExtractedText) > 0
    /\ ExtractedText[Len(ExtractedText)] = T("a3")

\* No path occurs twice in a sequence.
NoDuplicates(seq) == \A i, j \in 1..Len(seq) : seq[i] = seq[j] => i = j

\* A step of pass 2 that writes: one path is added to the written ones, it
\* was not written before in this run, and the text of that file changes.
WriteChangesText ==
    written' # written =>
        /\ Len(written') = Len(written) + 1
        /\ SubSeq(written', 1, Len(written)) = written
        /\ LET p == written'[Len(written')]
           IN  /\ \A i \in 1..Len(written) : written[i] # p
               /\ fs'[p].text # fs[p].text
               /\ \A q \in DOMAIN fs \ {p} : fs'[q] = fs[q]

\* C11: in one run every document is written at most once; a write happens
\* only when the rewritten text differs from the text read, and a document
\* whose rewritten text equals the text read is not written (the files
\* change only by a recorded write).
WrittenAtMostOnceOnChange ==
    /\ [](NoDuplicates(written) /\ NoDuplicates(processed))
    /\ [][pc = "pass2" => /\ WriteChangesText
                          /\ (written' = written => fs' = fs)]_vars

\* A run has ended in which b.md, a document without blocks that c.md
\* quotes, was processed and not written, while c.md was written.
WrittenOnceWitness ==
    /\ pc = "done"
    /\ run = 1
    /\ fs0[PathB].mode = "rw"
    /\ NumBegins(fs0[PathB].text) = 0
    /\ WasProcessed(PathB)
    /\ \A i \in 1..Len(written) : written[i] # PathB
    /\ \E i \in 1..Len(written) : written[i] = PathC

\* C12: a document that cannot be read or cannot be written back does not
\* end pass 2: when the run ends, every markdown file of the schedule has
\* been passed to process_md_file, in schedule order, and a file that
\* cannot be read or written is as it was.
ErrorIsolation ==
    pc = "done" =>
        /\ processed = SelectSeq(sorted_files, is_md_file)
        /\ \A d \in DOMAIN fs0 : fs0[d].mode # "rw" => fs[d] = fs0[d]

\* A run has ended in which the rewritten b.md could not be written back
\* and c.md, later in the schedule, was processed and written.
ErrorIsolationWitness ==
    /\ pc = "done"
    /\ run = 1
    /\ fs0[PathB].mode = "ro"
    /\ process_md_file(fs0, PathB).error
    /\ Before(processed, PathB, PathC)
    /\ \E i \in 1..Len(written) : written[i] = PathC

\* A run has ended in which d.md could not be read and a document later in
\* the schedule was processed.
UnreadableIsolationWitness ==
    /\ pc = "done"
    /\ run = 1
    /\ fs0[PathD].mode = "none"
    /\ \E i \in 1..Len(processed) :
          /\ processed[i] = PathD
          /\ i < Len(processed)

\* C13: when pass 1 has ended, the dependency map has the edge
\* referenced file -> quoting document for every block with a resolvable
\* path-spec of every input document, and has no other edge.
AllResolvableEdgesRecorded ==
    (pc = "sort") =>
        /\ \A d \in InputDocs : \A t \in Begins(fs[d].text) :
               Resolvable(t) => d \in Neighbors(dep_map, TargetOf(t, DirOf(d)))
        /\ \A k \in DOMAIN dep_map : \A d \in dep_map[k] :
               /\ d \in InputDocs
               /\ \E t \in Begins(fs[d].text) :
                      Resolvable(t) /\ TargetOf(t, DirOf(d)) = k

\* The same for the documents pass 1 finds a single block in.
SingleBlockEdgesRecorded ==
    (pc = "sort") =>
        \A d \in InputDocs : \A t \in Begins(fs[d].text) :
            (NumBegins(fs[d].text) = 1 /\ Resolvable(t))
                => d \in Neighbors(dep_map, TargetOf(t, DirOf(d)))

\* An unresolvable first block does not lose the edge of a resolvable
\* second block of the same document.
UnresolvableKeepsLaterEdges ==
    (pc = "sort") =>
        \A d \in InputDocs :
            LET text == fs[d].text
                I == {i \in 1..Len(text) : text[i].k = "begin"}
            IN  \A i, j \in I :
                    (i < j /\ Cardinality(I) = 2
                     /\ ~Resolvable(text[i]) /\ Resolvable(text[j]))
                        => d \in Neighbors(dep_map, TargetOf(text[j], DirOf(d)))

\* C14: for a non-empty dependency map, topological_sort returns the empty
\* list exactly when the graph has a cycle, a self-edge included; for an
\* acyclic graph it returns a non-empty order.
EmptyIffCycle ==
    (pc = "pass2" /\ DOMAIN dep_map # {}) =>
        (sorted_files = <<>> <=> HasCycle(dep_map))

\* A map whose only cycle is a self-edge, beside an edge between two other
\* nodes, has been sorted.
EmptyIffCycleWitness ==
    /\ pc = "pass2"
    /\ sorted_files = <<>>
    /\ \E n \in AllNodes(dep_map) :
          /\ n \in Neighbors(dep_map, n)
          /\ \A k \in AllNodes(dep_map) \ {n} : ~OnCycle(dep_map, k)
          /\ \E u, v \in AllNodes(dep_map) \ {n} :
                u # v /\ v \in Neighbors(dep_map, u)

\* C15: for an acyclic dependency map the returned order holds every node
\* of the map, key or dependent, exactly once, and nothing else.
TotalOrderOverNodes ==
    (pc = "pass2" /\ ~HasCycle(dep_map)) =>
        /\ NoDuplicates(sorted_files)
        /\ Range(sorted_files) = AllNodes(dep_map)
        /\ Len(sorted_files) = Cardinality(AllNodes(dep_map))

\* An acyclic map has been sorted in which one node is a key only, one is
\* a dependent only, one is both, and one is a key without dependents.
TotalOrderWitness ==
    /\ pc = "pass2"
    /\ ~HasCycle(dep_map)
    /\ Len(sorted_files) = 4
    /\ \E a, b, c, d \in AllNodes(dep_map) :
          /\ Cardinality({a, b, c, d}) = 4
          /\ b \in Neighbors(dep_map, a)
          /\ c \in Neighbors(dep_map, b)
          /\ c \notin DOMAIN dep_map
          /\ InDegree(dep_map)[a] = 0
          /\ d \in DOMAIN dep_map
          /\ dep_map[d] = {}
          /\ InDegree(dep_map)[d] = 0

\* The order in which the entries of a map over Nodes were inserted: the
\* keys n1, n2, n3, n4 in turn, and so the dependents of each key.
NodeRank == [n \in Nodes |->
                CASE n = "n1" -> 1 [] n = "n2" -> 2 [] n = "n3" -> 3
                  [] n = "n4" -> 4]

\* The nodes of S in insertion order.
RECURSIVE ByRank(_)
ByRank(S) ==
    IF S = {} THEN <<>>
    ELSE LET n == CHOOSE x \in S : \A y \in S : NodeRank[x] <= NodeRank[y]
         IN  <<n>> \o ByRank(S \ {n})

\* The nodes in the order they are discovered: each key, then its
\* dependents, a node counted where it is first met.
RECURSIVE AddNew(_, _)
AddNew(seen, seq) ==
    IF seq = <<>> THEN seen
    ELSE IF \E i \in 1..Len(seen) : seen[i] = Head(seq)
         THEN AddNew(seen, Tail(seq))
         ELSE AddNew(Append(seen, Head(seq)), Tail(seq))

RECURSIVE DiscoveryFrom(_, _, _)
DiscoveryFrom(dm, keys, seen) ==
    IF keys = <<>> THEN seen
    ELSE DiscoveryFrom(dm, Tail(keys),
                       AddNew(seen, <<Head(keys)>> \o ByRank(dm[Head(keys)])))

Discovery(dm) == DiscoveryFrom(dm, ByRank(DOMAIN dm), <<>>)

\* Kahn's loop with every tie broken by insertion order.
RECURSIVE KahnInsertionOrder(_, _, _, _)
KahnInsertionOrder(dm, deg, q, res) ==
    IF q = <<>> THEN res
    ELSE LET cur  == Head(q)
             deg2 == [n \in DOMAIN deg |->
                         IF n \in Neighbors(dm, cur) THEN deg[n] - 1 ELSE deg[n]]
             ready == ByRank({n \in Neighbors(dm, cur) : deg2[n] = 0})
         IN  KahnInsertionOrder(dm, deg2, Tail(q) \o ready, Append(res, cur))

InsertionOrderSchedule(dm) ==
    LET res == KahnInsertionOrder(dm, InDegree(dm),
                   SelectSeq(Discovery(dm), LAMBDA n : InDegree(dm)[n] = 0),
                   <<>>)
    IN  IF Len(res) # Cardinality(AllNodes(dm)) THEN <<>> ELSE res

\* C16: the schedule is a function of the dependency map and its insertion
\* order: topological_sort returns the order that Kahn's loop gives when
\* every tie among ready nodes is broken by insertion order of discovery.
DeterministicSchedule ==
    (pc = "pass2") => sorted_files = InsertionOrderSchedule(dep_map)

\* The schedule is one of the topological orders in any case.
ScheduleSameNodes ==
    (pc = "pass2") =>
        Range(sorted_files) = Range(InsertionOrderSchedule(dep_map))

\* C17: until pass 1 has scanned every input document and the schedule is
\* computed, no file is processed or written and every file is as it was
\* when the run began; a step of pass 1 changes the dependency map only;
\* and pass 1 is left only when all input documents have been scanned.
PassOrdering ==
    /\ [](pc \in {"pass1", "sort", "kahn"} =>
            /\ fs = fs0
            /\ written = <<>>
            /\ processed = <<>>)
    /\ [][pc = "pass1" =>
            /\ fs' = fs
            /\ written' = written
            /\ idx' = idx + 1
            /\ (pc' # "pass1" => idx' = Len(md_files) + 1)]_vars
    /\ [][fs' # fs => (pc = "pass2" /\ pc' = "pass2")]_vars

\* Pass 2 has written a document after pass 1 recorded edges from both
\* input documents.
PassOrderingWitness ==
    /\ pc = "pass2"
    /\ run = 1
    /\ written # <<>>
    /\ \E k1, k2 \in DOMAIN dep_map :
          PathB \in dep_map[k1] /\ PathC \in dep_map[k2]

\* No node is dequeued twice and no in-degree is below zero.
KahnBounded ==
    /\ NoDuplicates(result)
    /\ \A n \in DOMAIN in_degree : in_degree[n] >= 0

\* How far a run is from its end: the phase, and the iterations the loop of
\* that phase has left.
PhaseRank ==
    CASE pc = "pass1" -> 4 [] pc = "sort" -> 3 [] pc = "kahn" -> 2
      [] pc = "pass2" -> 1 [] OTHER -> 0

IterationsLeft ==
    CASE pc = "pass1" -> Len(md_files) + 1 - idx
      [] pc = "kahn" -> Cardinality(AllNodes(dep_map)) - Len(result)
      [] pc = "pass2" -> Len(sorted_files) + 1 - idx
      [] OTHER -> 0

\* A run that has not ended can take its next step.
CanStep ==
    /\ pc = "pass1" => idx \in 1..Len(md_files)
    /\ pc = "kahn" =>
          /\ DOMAIN in_degree = AllNodes(dep_map)
          /\ \A i \in 1..Len(queue) : queue[i] \in AllNodes(dep_map)
    /\ pc = "pass2" => idx \in 1..(Len(sorted_files) + 1)
    /\ pc \in {"pass1", "sort", "kahn", "pass2", "done"}

\* C18: Kahn's loop dequeues each node at most once and takes no in-degree
\* below zero; a run that has not ended can always take a step, and every
\* step lowers the pair (phase, iterations left), which is never negative:
\* the loop ends for a cyclic map as for an acyclic one, and the run
\* reaches its end.
Termination ==
    /\ [](KahnBounded /\ CanStep /\ IterationsLeft >= 0)
    /\ [][pc # "done" =>
            \/ PhaseRank' < PhaseRank
            \/ PhaseRank' = PhaseRank /\ IterationsLeft' < IterationsLeft]_vars

\* A run has ended by the cycle abort after Kahn's loop dequeued the nodes
\* that are on no cycle.
TerminationWitness ==
    /\ pc = "done"
    /\ HasCycle(dep_map)
    /\ result # <<>>
    /\ Len(result) < Cardinality(AllNodes(dep_map))

\* A run has ended after processing a schedule of four files.
FullScheduleWitness ==
    /\ pc = "done"
    /\ Len(sorted_files) = 4
    /\ Len(processed) = 2

\* Kahn's loop alone, for every map of at most MaxEdges entries.
KahnTerminates ==
    /\ []KahnBounded
    /\ (pc = "sort") ~> (pc = "pass2")

\* C19: only documents of the input set are passed to process_md_file and
\* written; a file that is in the graph only as the target of a quote block
\* is neither.
OnlyInputDocsRewritten ==
    /\ \A i \in 1..Len(processed) : Resolved(processed[i]) \in InputDocs
    /\ \A i \in 1..Len(written) : written[i] \in InputDocs
    /\ \A f \in DOMAIN fs \ InputDocs : fs[f] = fs0[f]

\* Files that are not markdown files are never passed to process_md_file.
OnlyMarkdownProcessed ==
    \A i \in 1..Len(processed) : is_md_file(processed[i])

\* Every result Kahn's loop can reach from the queue q, the in-degrees deg
\* and the result res, over all iteration orders of the sets.
RECURSIVE KahnFrom(_, _, _, _)
KahnFrom(dm, deg, q, res) ==
    IF q = <<>> THEN {res}
    ELSE LET cur  == Head(q)
             deg2 == Decrement(dm, deg, cur)
             ready == {n \in Neighbors(dm, cur) : deg2[n] = 0}
         IN  UNION {KahnFrom(dm, deg2, Tail(q) \o r, Append(res, cur)) :
                        r \in Perms(ready)}

\* Every order topological_sort can return for the map dm.
KahnOrders(dm) ==
    {SortResult(dm, res) :
        res \in UNION {KahnFrom(dm, InDegree(dm), q, <<>>) :
                          q \in Perms({n \in AllNodes(dm) : InDegree(dm)[n] = 0})}}

\* The files pass 2 leaves when it is given the schedule order.
RECURSIVE Pass2From(_, _, _)
Pass2From(files, order, i) ==
    IF i > Len(order) THEN files
    ELSE Pass2From(IF is_md_file(order[i])
                   THEN process_md_file(files, order[i]).files ELSE files,
                   order, i + 1)

\* The schedule of every run is one of KahnOrders, and the files a run
\* leaves are those of Pass2From for its schedule.
OrdersAreKahnOrders ==
    /\ pc = "pass2" => sorted_files \in KahnOrders(dep_map)
    /\ pc = "done" => fs = Pass2From(fs0, sorted_files, 1)

\* C20: when the dependency graph is acyclic, the files a run leaves are
\* the same for every order topological_sort can return.
OrderIndependent ==
    (pc = "done" /\ ~HasCycle(dep_map)) =>
        \A order \in KahnOrders(dep_map) : Pass2From(fs0, order, 1) = fs

\* The same when every markdown file of the schedule is an input document.
OrderIndependentInputDocs ==
    (pc = "done" /\ ~HasCycle(dep_map)
     /\ \A n \in AllNodes(dep_map) : is_md_file(n) => n \in InputDocs) =>
        \A order \in KahnOrders(dep_map) : Pass2From(fs0, order, 1) = fs

====
